---- MODULE Spec2Model ----
(***************************************************************************)
(* Authentication core of src/solution/app.py: the users table, the three  *)
(* request handlers register_user, auth_sign_in and update_password, and   *)
(* create_access_token / jwt.decode.  Every handler is cut at its          *)
(* statements that touch the database: what lies between two such          *)
(* statements is local to the request and is folded into the step before.  *)
(***************************************************************************)
EXTENDS Integers, Sequences, FiniteSets, TLC

VARIABLES
    users,      \* the users table, in insertion order (row i has id i)
    now,        \* datetime.utcnow(), in minutes
    issued,     \* every token create_access_token has returned so far
    pr,         \* per worker: the request it serves and its locals
    reply,      \* the answered request whose response is being sent (NoRequest: none)
    nreq,       \* number of requests received
    nsalt,      \* number of salted hashes written to the table
    stale,      \* history: tokens read/issued before a committed password change of their user
    audit,      \* history: per row, the number of 200 answers of update_password, and the
                \* password and the version that the last of them replaced
    mint        \* one call of create_access_token and the jwt.decode of its result,
                \* outside any handler (NoMint: none)

vars == <<users, now, issued, pr, reply, nreq, nsalt, stale, audit, mint>>

----------------------------------------------------------------------------
\* Bounds of the model.
MaxUsers == 2
MaxTicks == 1
MaxTokens == 2
MaxVersion == 2
MaxRequests == 5

\* Program constants.
ACCESS_TOKEN_EXPIRE_MINUTES == 60
SECRET_KEY == "your_secret_key"
ALGORITHM == "HS256"

\* Column default of users.token_version (the table's DDL is not in app.py).
DefaultTokenVersion == 0

Procs == {1, 2}
Logins == {"alice", "bob"}
Passwords == {"p", "q"}
\* request.get_json().get(...) of an absent or empty field is falsy: "" stands for both
LoginInputs == Logins \cup {""}
PasswordInputs == Passwords \cup {""}
\* what a failing psycopg2 call raises
StorageErrors == {"connection lost", "deadlock detected"}
\* the clock is read at multiples of the token lifetime
ClockStep == ACCESS_TOKEN_EXPIRE_MINUTES

----------------------------------------------------------------------------
\* Values.

\* bcrypt.hashpw(password, bcrypt.gensalt()): the digest is determined by the
\* password and the salt; a stored string that is no bcrypt hash has salt 0.
hashpw(password, salt) == [pw |-> password, salt |-> salt]

WellFormedHash(h) == h.salt > 0

\* bcrypt.checkpw(password, hashed) for a well-formed hash
checkpw(password, h) == h.pw = password

\* bcrypt.gensalt(): 16 random bytes, a salt no hash written before carries
gensalt == nsalt + 1

NoToken == [sub |-> "", login |-> "", exp |-> 0, token_version |-> 0, key |-> "none"]
\* a string that is not three base64 segments
GarbageToken == [NoToken EXCEPT !.key = "garbage"]

NoDelta == [given |-> FALSE, minutes |-> 0]

\* jwt.encode(payload, key, algorithm=ALGORITHM): the payload and the key that
\* signed it
jwt_encode(payload, key) ==
    [k \in DOMAIN payload \cup {"key"} |-> IF k = "key" THEN key ELSE payload[k]]

\* create_access_token(data, token_version, expires_delta) called at time t:
\* to_encode is data updated with exp and token_version, so these two keys of
\* data are overwritten; a zero expires_delta is falsy, as None is
create_access_token(data, token_version, expires_delta, t) ==
    LET expire == IF expires_delta.given /\ expires_delta.minutes # 0
                  THEN t + expires_delta.minutes
                  ELSE t + ACCESS_TOKEN_EXPIRE_MINUTES
        to_encode == [k \in DOMAIN data \cup {"exp", "token_version"} |->
                         IF k = "exp" THEN expire
                         ELSE IF k = "token_version" THEN token_version
                         ELSE data[k]]
    IN  jwt_encode(to_encode, SECRET_KEY)

\* (mutant) jwt.decode that does not look at exp
jwt_decode_no_exp(token, t) ==
    IF token.key # SECRET_KEY THEN "InvalidTokenError" ELSE "ok"

\* jwt.decode(token, SECRET_KEY, algorithms=[ALGORITHM]) called at time t:
\* the signature is checked first, then exp
jwt_decode(token, t) ==
    IF token.key # SECRET_KEY THEN "InvalidTokenError"
    ELSE IF token.exp <= t THEN "ExpiredSignatureError"
    ELSE "ok"

\* what jwt.decode returns when it raises nothing: the payload
jwt_payload(token) == [k \in DOMAIN token \ {"key"} |-> token[k]]

NoUser == [id |-> 0, login |-> "", password_hash |-> hashpw("", 0), token_version |-> 0]

NoBody == [key |-> "", text |-> "", token |-> NoToken]
NoResp == [status |-> 0, body |-> NoBody]
\* jsonify({key: text}), status
Json(status, key, text) == [status |-> status, body |-> [key |-> key, text |-> text, token |-> NoToken]]
JsonToken(status, token) == [status |-> status, body |-> [key |-> "token", text |-> "", token |-> token]]
\* an exception no handler catches reaches Flask, which answers 500 itself
Unhandled(e) == [status |-> 500, body |-> [key |-> "unhandled", text |-> e, token |-> NoToken]]

NoHeader == [scheme |-> "none", token |-> NoToken]

\* a worker: the request it serves (op and the request's fields), where it is
\* in the handler (pc), the row it has read (user), and what held of the
\* request when its checks were made (g_*, history only)
Idle == [pc |-> "idle", op |-> "none", login |-> "", password |-> "",
         old_password |-> "", new_password |-> "", header |-> NoHeader,
         user |-> NoUser,
         g_filled |-> FALSE, g_stale |-> FALSE, g_sig |-> FALSE, g_live |-> FALSE,
         g_cur |-> FALSE]

\* an answered request: the request as the worker held it, and the response
Answered(req, resp) ==
    [op |-> req.op, login |-> req.login, password |-> req.password,
     old_password |-> req.old_password, new_password |-> req.new_password,
     header |-> req.header, user |-> req.user, resp |-> resp,
     g_filled |-> req.g_filled, g_stale |-> req.g_stale, g_sig |-> req.g_sig,
     g_live |-> req.g_live, g_cur |-> req.g_cur]

NoRequest == Answered(Idle, NoResp)

NoAudit == [n |-> 0, old |-> "", before |-> 0]

NoPayload == [exp |-> 0, token_version |-> 0]
NoMint == [pc |-> "none", data |-> [sub |-> ""], token_version |-> 0, expires_delta |-> NoDelta,
           at |-> 0, token |-> NoToken, checked_at |-> 0, outcome |-> "", payload |-> NoPayload]

\* rows of the table that satisfy a WHERE clause
RowsByLogin(login) == {i \in 1..Len(users) : users[i].login = login}
RowsById(user_id) == {i \in 1..Len(users) : ToString(users[i].id) = user_id}

InFlight(pc) == {q \in Procs : pr[q].pc = pc}

----------------------------------------------------------------------------
Init ==
    /\ users = <<>>
    /\ now = 0
    /\ issued = {}
    /\ pr = [p \in Procs |-> Idle]
    /\ reply = NoRequest
    /\ nreq = 0
    /\ nsalt = 0
    /\ stale = {}
    /\ audit = <<>>
    /\ mint = NoMint

\* the workers at statement pc of a handler that can take a step: none while a
\* response is being sent; a new request goes to the free worker of least
\* index (workers are interchangeable)
Ready(pc) ==
    IF reply # NoRequest THEN {}
    ELSE IF pc # "idle" THEN {p \in Procs : pr[p].pc = pc}
    ELSE {p \in Procs : /\ pr[p].pc = "idle"
                        /\ nreq < MaxRequests
                        /\ \A q \in Procs : q < p => pr[q].pc # "idle"}

\* a worker is free to take the next request
Accept(p) == p \in Ready("idle")

\* the worker returns the response and is free again
Answer(p, req, resp) ==
    /\ pr' = [pr EXCEPT ![p] = Idle]
    /\ reply' = Answered(req, resp)

\* the worker is at a later database statement of its handler
Resume(p, pc) == p \in Ready(pc)

\* the worker goes on to its next database statement
Goto(p, req, pc) ==
    /\ pr' = [pr EXCEPT ![p] = [req EXCEPT !.pc = pc]]
    /\ UNCHANGED reply

----------------------------------------------------------------------------
\* register_user

RegisterRequest(login, password) ==
    [Idle EXCEPT !.op = "register", !.login = login, !.password = password,
                 !.g_filled = login # "" /\ password # ""]

\* (mutant) the result of the SELECT is not looked at
RegisterCheckNoLookup(login, password, existing_user) ==
    IF login = "" \/ password = ""
    THEN Json(400, "error", "Login and password are required")
    ELSE NoResp

\* lines 174-187 once SELECT id FROM users WHERE login = %s has returned:
\* existing_user says whether fetchone() returned a row.  A response with
\* status 0 means that no return statement was reached.
RegisterCheck(login, password, existing_user) ==
    IF login = "" \/ password = ""
    THEN Json(400, "error", "Login and password are required")
    ELSE IF existing_user
    THEN Json(400, "error", "User with this login already exists")
    ELSE NoResp

\* lines 170-187
RegisterSelect(p, login, password) ==
    LET req == RegisterRequest(login, password)
        resp == RegisterCheck(login, password, RowsByLogin(login) # {})
    IN
    /\ Accept(p)
    /\ nreq' = nreq + 1
    /\ IF resp.status # 0
       THEN Answer(p, req, resp)
       ELSE /\ Len(users) + Cardinality(InFlight("insert")) < MaxUsers
            /\ Goto(p, req, "insert")
    /\ UNCHANGED <<users, now, issued, nsalt, stale, audit, mint>>

\* the id the store gives a new row (the INSERT names no id; the table's DDL
\* is not in app.py): the next of a sequence
NextId == Len(users) + 1

\* (mutant) every new row gets the same id
InsertUserSameId(login, password_hash) ==
    Append(users, [id |-> 1, login |-> login,
                   password_hash |-> password_hash,
                   token_version |-> DefaultTokenVersion])

\* lines 189-194: INSERT INTO users (login, password_hash), commit
InsertUser(login, password_hash) ==
    Append(users, [id |-> NextId, login |-> login,
                   password_hash |-> password_hash,
                   token_version |-> DefaultTokenVersion])

RegisterInsert(p) ==
    /\ Resume(p, "insert")
    /\ users' = InsertUser(pr[p].login, hashpw(pr[p].password, gensalt))
    /\ audit' = Append(audit, NoAudit)
    /\ nsalt' = nsalt + 1
    /\ Answer(p, pr[p], Json(201, "message", "User registered successfully!"))
    /\ UNCHANGED <<now, issued, nreq, stale, mint>>

\* line 179: get_db_connection() raises outside the try block
RegisterConnectFail(p, login, password, e) ==
    /\ Accept(p)
    /\ nreq' = nreq + 1
    /\ login # "" /\ password # ""
    /\ Answer(p, RegisterRequest(login, password), Unhandled(e))
    /\ UNCHANGED <<users, now, issued, nsalt, stale, audit, mint>>

\* lines 196-197: the SELECT raises
RegisterSelectFail(p, login, password, e) ==
    /\ Accept(p)
    /\ nreq' = nreq + 1
    /\ login # "" /\ password # ""
    /\ Answer(p, RegisterRequest(login, password), Json(500, "error", e))
    /\ UNCHANGED <<users, now, issued, nsalt, stale, audit, mint>>

\* lines 196-197: the INSERT or the commit raises; the connection is closed uncommitted
RegisterInsertFail(p, e) ==
    /\ Resume(p, "insert")
    /\ Answer(p, pr[p], Json(500, "error", e))
    /\ UNCHANGED <<users, now, issued, nreq, nsalt, stale, audit, mint>>

----------------------------------------------------------------------------
\* auth_sign_in

SignInRequest(login, password) ==
    [Idle EXCEPT !.op = "signin", !.login = login, !.password = password,
                 !.g_filled = login # "" /\ password # ""]

\* (mutant) an unknown login gets an answer of its own
SignInCheckUnknownLogin(login, password, found, user) ==
    IF login = "" \/ password = ""
    THEN Json(400, "error", "Login and password are required")
    ELSE IF ~found
    THEN Json(401, "error", "User not found")
    ELSE IF ~WellFormedHash(user.password_hash)
    THEN Unhandled("Invalid salt")
    ELSE IF ~checkpw(password, user.password_hash)
    THEN Json(401, "error", "Invalid login or password")
    ELSE NoResp

\* lines 222-240 once the SELECT has returned: found says whether fetchone()
\* returned a row, user is that row
SignInCheck(login, password, found, user) ==
    IF login = "" \/ password = ""
    THEN Json(400, "error", "Login and password are required")
    ELSE IF ~found
    THEN Json(401, "error", "Invalid login or password")
    ELSE IF ~WellFormedHash(user.password_hash)
    THEN Unhandled("Invalid salt")
    ELSE IF ~checkpw(password, user.password_hash)
    THEN Json(401, "error", "Invalid login or password")
    ELSE NoResp

\* lines 218-240: SELECT id, login, password_hash, token_version FROM users
\* WHERE login = %s; with no ORDER BY, fetchone() returns any matching row
SignInSelect(p, login, password) ==
    LET req == SignInRequest(login, password)
        rows == RowsByLogin(login)
    IN
    /\ Accept(p)
    /\ nreq' = nreq + 1
    /\ \E i \in (IF rows = {} THEN {0} ELSE rows) :
         LET found == i # 0
             user == IF found THEN users[i] ELSE NoUser
             resp == SignInCheck(login, password, found, user)
         IN  IF resp.status # 0
             THEN Answer(p, [req EXCEPT !.user = user], resp)
             ELSE /\ Cardinality(issued) + Cardinality(InFlight("issue")) < MaxTokens
                  /\ Goto(p, [req EXCEPT !.user = user], "issue")
    /\ UNCHANGED <<users, now, issued, nsalt, stale, audit, mint>>

\* (mutant) the variant without versioning: every token carries version 0
SignInTokenNoVersion(user, t) ==
    create_access_token([sub |-> ToString(user.id), login |-> user.login],
                        DefaultTokenVersion, NoDelta, t)

\* lines 242-245: the token is built from the row read by the SELECT
SignInToken(user, t) ==
    create_access_token([sub |-> ToString(user.id), login |-> user.login],
                        user.token_version, NoDelta, t)

SignInIssue(p) ==
    LET token == SignInToken(pr[p].user, now) IN
    /\ Resume(p, "issue")
    /\ issued' = issued \cup {token}
    /\ stale' = IF pr[p].g_stale THEN stale \cup {token} ELSE stale
    /\ Answer(p, pr[p], JsonToken(200, token))
    /\ UNCHANGED <<users, now, nreq, nsalt, audit, mint>>

\* lines 225-231 are in no try block: a failing connect or SELECT is not caught
SignInFail(p, login, password, e) ==
    /\ Accept(p)
    /\ nreq' = nreq + 1
    /\ login # "" /\ password # ""
    /\ Answer(p, SignInRequest(login, password), Unhandled(e))
    /\ UNCHANGED <<users, now, issued, nsalt, stale, audit, mint>>

----------------------------------------------------------------------------
\* update_password

\* tokens a client can present: the ones it was given, the same claims signed
\* with another key (also with the version raised), and garbage
Forged == {[t EXCEPT !.key = "attacker", !.token_version = t.token_version + d] :
              t \in issued, d \in {0, 1}}

HeaderInputs ==
    {NoHeader, [scheme |-> "Basic", token |-> GarbageToken]}
    \cup {[scheme |-> "Bearer", token |-> t] : t \in issued \cup Forged \cup {GarbageToken}}

\* the request, with what the claims say of its token at the time it is checked
UpdateRequest(header, old_password, new_password) ==
    [Idle EXCEPT !.op = "update", !.header = header,
                 !.old_password = old_password, !.new_password = new_password,
                 !.g_filled = old_password # "" /\ new_password # "",
                 !.g_stale = header.token \in stale,
                 !.g_sig = header.scheme = "Bearer" /\ header.token.key = SECRET_KEY,
                 !.g_live = now < header.token.exp,
                 !.g_cur = \E i \in 1..Len(users) :
                              /\ ToString(users[i].id) = header.token.sub
                              /\ users[i].token_version = header.token.token_version]

\* lines 282-302: the checks made before the database is opened
UpdateLocalCheck(header, old_password, new_password, t) ==
    IF header.scheme # "Bearer"
    THEN Json(401, "error", "Authorization token is missing or invalid")
    ELSE IF jwt_decode(header.token, t) = "ExpiredSignatureError"
    THEN Json(401, "error", "Token has expired")
    ELSE IF jwt_decode(header.token, t) = "InvalidTokenError"
    THEN Json(401, "error", "Invalid token")
    ELSE IF old_password = "" \/ new_password = ""
    THEN Json(400, "error", "Old password and new password are required")
    ELSE NoResp

\* lines 312-323 once SELECT ... WHERE id = %s has returned
UpdateRowCheck(token_version, old_password, found, user) ==
    IF ~found
    THEN Json(401, "error", "User not found")
    ELSE IF user.token_version # token_version
    THEN Json(401, "error", "Token version mismatch")
    ELSE IF ~WellFormedHash(user.password_hash)
    THEN Json(500, "error", "Invalid salt")
    ELSE IF ~checkpw(old_password, user.password_hash)
    THEN Json(401, "error", "Old password is incorrect")
    ELSE NoResp

\* the row SELECT id, password_hash, token_version FROM users WHERE id = %s
\* returns for the token's sub (ids are the table's key), NoUser if none
UpdateRow(header) ==
    LET rows == RowsById(header.token.sub)
    IN  IF rows = {} THEN NoUser ELSE users[CHOOSE i \in rows : TRUE]

\* lines 282-323: the response of the checks in their order, status 0 if all pass
UpdateResponse(header, old_password, new_password) ==
    LET early == UpdateLocalCheck(header, old_password, new_password, now)
        user == UpdateRow(header)
    IN  IF early.status # 0 THEN early
        ELSE UpdateRowCheck(header.token.token_version, old_password, user # NoUser, user)

UpdateCheck(p, header, old_password, new_password) ==
    LET early == UpdateLocalCheck(header, old_password, new_password, now)
        user == IF early.status # 0 THEN NoUser ELSE UpdateRow(header)
        req == [UpdateRequest(header, old_password, new_password) EXCEPT !.user = user]
        resp == UpdateResponse(header, old_password, new_password)
    IN
    /\ Accept(p)
    /\ nreq' = nreq + 1
    /\ IF resp.status # 0 THEN Answer(p, req, resp)
       ELSE /\ user.token_version
                  + Cardinality({q \in InFlight("write") : pr[q].user.id = user.id}) < MaxVersion
            /\ Goto(p, req, "write")
    /\ UNCHANGED <<users, now, issued, nsalt, stale, audit, mint>>

\* (mutant) the UPDATE without its WHERE clause
UpdateUserAllRows(user_id, new_password_hash) ==
    [i \in 1..Len(users) |->
        [users[i] EXCEPT !.password_hash = new_password_hash, !.token_version = @ + 1]]

\* (mutant) the UPDATE without token_version = token_version + 1
UpdateUserHashOnly(user_id, new_password_hash) ==
    [i \in 1..Len(users) |->
        IF ToString(users[i].id) = user_id
        THEN [users[i] EXCEPT !.password_hash = new_password_hash]
        ELSE users[i]]

\* lines 329-332: UPDATE users SET password_hash = %s, token_version =
\* token_version + 1 WHERE id = %s, applied to the table as it is now
UpdateUser(user_id, new_password_hash) ==
    [i \in 1..Len(users) |->
        IF ToString(users[i].id) = user_id
        THEN [users[i] EXCEPT !.password_hash = new_password_hash,
                              !.token_version = @ + 1]
        ELSE users[i]]

\* lines 326-335
UpdateWrite(p) ==
    LET user_id == pr[p].header.token.sub IN
    /\ Resume(p, "write")
    /\ users' = UpdateUser(user_id, hashpw(pr[p].new_password, gensalt))
    /\ audit' = [i \in 1..Len(audit) |->
                    IF ToString(users[i].id) = user_id
                    THEN [n |-> audit[i].n + 1, old |-> users[i].password_hash.pw,
                          before |-> users[i].token_version]
                    ELSE audit[i]]
    /\ stale' = stale \cup {t \in issued : t.sub = user_id}
    /\ pr' = [q \in Procs |->
                 IF q = p THEN Idle
                 ELSE IF pr[q].pc = "issue" /\ ToString(pr[q].user.id) = user_id
                 THEN [pr[q] EXCEPT !.g_stale = TRUE]
                 ELSE pr[q]]
    /\ reply' = Answered(pr[p], Json(200, "message", "Password updated successfully!"))
    /\ nsalt' = nsalt + 1
    /\ UNCHANGED <<now, issued, nreq, mint>>

\* line 304: get_db_connection() raises outside the try block
UpdateConnectFail(p, header, old_password, new_password, e) ==
    /\ Accept(p)
    /\ nreq' = nreq + 1
    /\ UpdateLocalCheck(header, old_password, new_password, now).status = 0
    /\ Answer(p, UpdateRequest(header, old_password, new_password), Unhandled(e))
    /\ UNCHANGED <<users, now, issued, nsalt, stale, audit, mint>>

\* lines 337-339: the SELECT raises
UpdateSelectFail(p, header, old_password, new_password, e) ==
    /\ Accept(p)
    /\ nreq' = nreq + 1
    /\ UpdateLocalCheck(header, old_password, new_password, now).status = 0
    /\ Answer(p, UpdateRequest(header, old_password, new_password), Json(500, "error", e))
    /\ UNCHANGED <<users, now, issued, nsalt, stale, audit, mint>>

\* (mutant) the UPDATE is applied and stays applied when the commit raises
UpdateWriteFailNoRollback(p, e) ==
    /\ Resume(p, "write")
    /\ users' = UpdateUser(pr[p].header.token.sub, hashpw(pr[p].new_password, gensalt))
    /\ Answer(p, pr[p], Json(500, "error", e))
    /\ UNCHANGED <<now, issued, nreq, nsalt, stale, audit, mint>>

\* lines 337-339: the UPDATE or the commit raises, conn.rollback()
UpdateWriteFail(p, e) ==
    /\ Resume(p, "write")
    /\ Answer(p, pr[p], Json(500, "error", e))
    /\ UNCHANGED <<users, now, issued, nreq, nsalt, stale, audit, mint>>

----------------------------------------------------------------------------
\* the response leaves the server.  Sending it touches nothing the handlers
\* share, so it is taken before any other step.
Send ==
    /\ reply # NoRequest
    /\ reply' = NoRequest
    /\ UNCHANGED <<users, now, issued, pr, nreq, nsalt, stale, audit, mint>>

Tick ==
    /\ reply = NoRequest
    /\ now + ClockStep <= MaxTicks * ClockStep
    /\ now' = now + ClockStep
    /\ UNCHANGED <<users, issued, pr, reply, nreq, nsalt, stale, audit, mint>>

Next ==
    \/ \E p \in Ready("idle"), l \in LoginInputs, w \in PasswordInputs : RegisterSelect(p, l, w)
    \/ \E p \in Ready("insert") : RegisterInsert(p)
    \/ \E p \in Ready("idle"), l \in LoginInputs, w \in PasswordInputs, e \in StorageErrors :
          RegisterConnectFail(p, l, w, e)
    \/ \E p \in Ready("idle"), l \in LoginInputs, w \in PasswordInputs, e \in StorageErrors :
          RegisterSelectFail(p, l, w, e)
    \/ \E p \in Ready("insert"), e \in StorageErrors : RegisterInsertFail(p, e)
    \/ \E p \in Ready("idle"), l \in LoginInputs, w \in PasswordInputs : SignInSelect(p, l, w)
    \/ \E p \in Ready("issue") : SignInIssue(p)
    \/ \E p \in Ready("idle"), l \in LoginInputs, w \in PasswordInputs, e \in StorageErrors :
          SignInFail(p, l, w, e)
    \/ \E p \in Ready("idle"), h \in HeaderInputs, o \in PasswordInputs, w \in PasswordInputs :
          UpdateCheck(p, h, o, w)
    \/ \E p \in Ready("write") : UpdateWrite(p)
    \/ \E p \in Ready("idle"), h \in HeaderInputs, o \in PasswordInputs, w \in PasswordInputs,
          e \in StorageErrors : UpdateConnectFail(p, h, o, w, e)
    \/ \E p \in Ready("idle"), h \in HeaderInputs, o \in PasswordInputs, w \in PasswordInputs,
          e \in StorageErrors : UpdateSelectFail(p, h, o, w, e)
    \/ \E p \in Ready("write"), e \in StorageErrors : UpdateWriteFail(p, e)
    \/ Tick
    \/ Send

Spec == Init /\ [][Next]_vars

----------------------------------------------------------------------------
\* The handlers over a table whose stored hashes can be damaged: a row's
\* password_hash is replaced by a string that is no bcrypt hash, by something
\* other than the handlers.

MaxCorrupt == 1

Corrupt(i) ==
    /\ reply = NoRequest
    /\ WellFormedHash(users[i].password_hash)
    /\ Cardinality({j \in 1..Len(users) : ~WellFormedHash(users[j].password_hash)}) < MaxCorrupt
    /\ users' = [users EXCEPT ![i].password_hash.salt = 0]
    /\ UNCHANGED <<now, issued, pr, reply, nreq, nsalt, stale, audit, mint>>

CorruptNext ==
    \/ Next
    \/ \E i \in 1..Len(users) : Corrupt(i)

CorruptSpec == Init /\ [][CorruptNext]_vars

----------------------------------------------------------------------------
\* create_access_token and jwt.decode on their own: one call of
\* create_access_token with arguments of the caller's choice, and calls of
\* jwt.decode on its result as time passes (the clock ticks by the minute).

MaxClock == 3
MaxDelta == 2

\* data: a dict with any of the keys below; sub and login are strings, a
\* caller's own exp or token_version is a number
ClaimKeys == {"sub", "login", "exp", "token_version"}
DataInputs ==
    {[k \in K |-> IF k \in {"exp", "token_version"} THEN n
                  ELSE IF k = "sub" THEN sub ELSE "alice"] :
        K \in SUBSET ClaimKeys, sub \in {"1", "2"}, n \in {5, 7}}

\* expires_delta: None or a timedelta, which may be zero or negative
DeltaInputs == {NoDelta} \cup {[given |-> TRUE, minutes |-> m] : m \in -1..MaxDelta}

TokenInit ==
    /\ users = <<>>
    /\ now = 0
    /\ issued = {}
    /\ pr = [p \in Procs |-> Idle]
    /\ reply = NoRequest
    /\ nreq = 0
    /\ nsalt = 0
    /\ stale = {}
    /\ audit = <<>>
    /\ mint \in {[NoMint EXCEPT !.pc = "args", !.data = d, !.token_version = v,
                                !.expires_delta = e] :
                     d \in DataInputs, v \in 0..MaxVersion, e \in DeltaInputs}

\* lines 38-45
TokenIssue ==
    /\ mint.pc = "args"
    /\ mint' = [mint EXCEPT !.pc = "issued", !.at = now,
                            !.token = create_access_token(mint.data, mint.token_version,
                                                          mint.expires_delta, now)]
    /\ UNCHANGED <<users, now, issued, pr, reply, nreq, nsalt, stale, audit>>

\* lines 288-295: jwt.decode of the token, at any time from its creation on
TokenDecode ==
    /\ mint.pc \in {"issued", "decoded"}
    /\ mint' = [mint EXCEPT !.pc = "decoded", !.checked_at = now,
                            !.outcome = jwt_decode(mint.token, now),
                            !.payload = IF jwt_decode(mint.token, now) = "ok"
                                        THEN jwt_payload(mint.token) ELSE NoPayload]
    /\ UNCHANGED <<users, now, issued, pr, reply, nreq, nsalt, stale, audit>>

TokenTick ==
    /\ now < MaxClock
    /\ now' = now + 1
    /\ UNCHANGED <<users, issued, pr, reply, nreq, nsalt, stale, audit, mint>>

TokenNext == TokenIssue \/ TokenDecode \/ TokenTick

TokenSpec == TokenInit /\ [][TokenNext]_vars
----------------------------------------------------------------------------
\* What the properties below say of an answered request.

\* the request was answered by the handler's own checks, not by a failing
\* connection or statement
NoStorageFailure(r) == r.resp.status # 500

\* update_password got past every check of the token: it went on to the old
\* password
TokenAccepted(r) ==
    /\ r.op = "update"
    /\ \/ r.resp.status = 200
       \/ r.resp.status = 401 /\ r.resp.body.text = "Old password is incorrect"

\* row i has had a password change that replaced its password by another one
Changed(i) == audit[i].n > 0 /\ audit[i].old # users[i].password_hash.pw

----------------------------------------------------------------------------
\* C1: once update_password has succeeded for a user, an update_password
\* request made later with a token of that user from before the change is
\* answered 401, and one made with a token of a later sign-in, not expired and
\* with no further change, gets past the token checks.
C1_VersionInvalidation ==
    (reply.op = "update" /\ NoStorageFailure(reply)) =>
        /\ reply.g_stale => reply.resp.status = 401
        /\ (reply.g_sig /\ ~reply.g_stale /\ reply.g_live
                /\ reply.header.token.token_version > DefaultTokenVersion)
              => TokenAccepted(reply)

\* C2: update_password accepts a token iff its signature verifies, it has not
\* expired and its token_version is the stored one of the user it names.
C2_TokenValidIff ==
    (reply.op = "update" /\ NoStorageFailure(reply)) =>
        (TokenAccepted(reply) <=> (reply.g_sig /\ reply.g_live /\ reply.g_cur))

\* C3: a row is created with token_version 0; a step changes a row's
\* token_version only by adding 1, and only when update_password answers 200
\* for that row; so the version is the number of such answers.
C3_Step ==
    /\ Len(users') >= Len(users)
    /\ \A i \in 1..Len(users') :
          IF i > Len(users)
          THEN /\ users'[i].token_version = 0
               /\ reply'.op = "register" /\ reply'.resp.status = 201
          ELSE \/ users'[i].token_version = users[i].token_version
               \/ /\ users'[i].token_version = users[i].token_version + 1
                  /\ reply'.op = "update" /\ reply'.resp.status = 200
                  /\ reply'.header.token.sub = ToString(users[i].id)
    /\ (reply' # reply /\ reply'.op = "update" /\ reply'.resp.status = 200) =>
          \E i \in 1..Len(users) :
             /\ reply'.header.token.sub = ToString(users[i].id)
             /\ users'[i].token_version = users[i].token_version + 1
    /\ \A i \in 1..Len(users') : users'[i].token_version = audit'[i].n

C3_TokenVersionCounts == [][C3_Step]_vars

\* two password changes of one row, the second by a request that had read the
\* row before the first was written
C3_Witness ==
    /\ reply.op = "update" /\ reply.resp.status = 200
    /\ \E i \in 1..Len(users) :
          /\ users[i].id = reply.user.id
          /\ reply.user.token_version = 0
          /\ users[i].token_version = 2

\* C4: no two rows of the users table have the same login.
C4_LoginUnique ==
    \A i, j \in 1..Len(users) : users[i].login = users[j].login => i = j

\* C5: in every step a row's password_hash changes iff its token_version
\* changes, and then the version grows by 1: no state shows one without the
\* other, also when the UPDATE fails.
C5_Step ==
    \A i \in 1..Len(users) :
        /\ (users'[i].password_hash # users[i].password_hash)
              <=> (users'[i].token_version # users[i].token_version)
        /\ users'[i].token_version \in {users[i].token_version, users[i].token_version + 1}
        /\ (reply' # reply /\ reply'.op = "update" /\ reply'.resp.status # 200)
              => users'[i] = users[i]

C5_AtomicPasswordChange == [][C5_Step]_vars

\* an UPDATE that failed, on a row an earlier UPDATE had changed: the row is the
\* one the failed request had read
C5_Witness ==
    /\ reply.op = "update" /\ reply.resp.status = 500 /\ reply.user # NoUser
    /\ \E i \in 1..Len(users) :
          /\ users[i] = reply.user
          /\ audit[i].n = 1
          /\ users[i].token_version = 1
          /\ users[i].password_hash.pw = "q"

\* C6: sign-in answers an unknown login and a wrong password of a known login
\* alike: 401 with one and the same payload.
C6_SignInSameRejection ==
    /\ \A l1 \in Logins : RowsByLogin(l1) = {} =>
          \A l2 \in Logins : \A i \in RowsByLogin(l2) :
             \A w1 \in Passwords, w2 \in Passwords :
                ~checkpw(w2, users[i].password_hash) =>
                    LET r1 == SignInCheck(l1, w1, FALSE, NoUser)
                        r2 == SignInCheck(l2, w2, TRUE, users[i])
                    IN  r1.status = 401 /\ r2.status = 401 /\ r1.body = r2.body
    /\ (/\ reply.op = "signin" /\ reply.g_filled /\ NoStorageFailure(reply)
        /\ \/ RowsByLogin(reply.login) = {}
           \/ reply.user # NoUser /\ ~checkpw(reply.password, reply.user.password_hash))
          => /\ reply.resp.status = 401
             /\ \A l \in Logins, w \in Passwords :
                   \A i \in RowsByLogin(l) \cup {0} :
                      LET r == SignInCheck(l, w, i # 0, IF i = 0 THEN NoUser ELSE users[i])
                      IN  r.status = 401 => r.body = reply.resp.body

\* a sign-in with a login the table does not hold is answered 401 while the
\* table holds another login
C6_Witness ==
    /\ reply.op = "signin" /\ reply.resp.status = 401 /\ reply.g_filled
    /\ RowsByLogin(reply.login) = {}
    /\ users # <<>>

\* C7: every 401 of update_password carries the same payload, whichever check
\* failed.
C7_Update401Generic ==
    (reply.op = "update" /\ reply.resp.status = 401) =>
        \A h \in HeaderInputs, o \in PasswordInputs, w \in PasswordInputs :
            UpdateResponse(h, o, w).status = 401
                => UpdateResponse(h, o, w).body = reply.resp.body

\* C8: once update_password has replaced password p of a row by q # p, a
\* sign-in received later with the row's login is answered 401 for p, and for q
\* it succeeds with the version the change produced.
C8_Step ==
    /\ \A p \in Procs : (pr[p].pc = "idle" /\ pr'[p].pc = "issue") =>
          \A i \in 1..Len(users) : (users[i].login = pr'[p].login /\ Changed(i)) =>
             /\ pr'[p].password # audit[i].old
             /\ pr'[p].user.token_version = audit[i].before + 1
    /\ (/\ reply = NoRequest /\ nreq' = nreq + 1
        /\ reply'.op = "signin" /\ NoStorageFailure(reply')) =>
          \A i \in 1..Len(users) : (users[i].login = reply'.login /\ Changed(i)) =>
             /\ reply'.password # users[i].password_hash.pw
             /\ reply'.password = audit[i].old => reply'.resp.status = 401
    /\ \A p \in Procs : (pr[p].pc = "issue" /\ pr'[p].pc = "idle") =>
          /\ reply'.resp.status = 200
          /\ reply'.resp.body.token.token_version = pr[p].user.token_version

C8_CredentialReplacement == [][C8_Step]_vars

\* C9: sign-in goes on to issue a token only for a row of the given login whose
\* hash verifies the password, and the token carries that row's id, login and
\* token_version as read (0 if the row has had no password change).
C9_Step ==
    /\ \A p \in Procs : (pr[p].pc = "idle" /\ pr'[p].pc = "issue") =>
          \E i \in RowsByLogin(pr'[p].login) :
             /\ pr'[p].user = users[i]
             /\ checkpw(pr'[p].password, users[i].password_hash)
             /\ audit[i].n = 0 => users[i].token_version = 0
    /\ \A p \in Procs : (pr[p].pc = "issue" /\ pr'[p].pc = "idle") =>
          LET token == reply'.resp.body.token IN
          /\ reply'.op = "signin" /\ reply'.resp.status = 200
          /\ reply'.resp.body.key = "token"
          /\ token.sub = ToString(pr[p].user.id)
          /\ token.login = pr[p].user.login
          /\ token.token_version = pr[p].user.token_version
          /\ token.key = SECRET_KEY
    /\ (reply' # reply /\ reply'.op = "signin" /\ reply'.resp.status = 200) =>
          \E p \in Procs : pr[p].pc = "issue" /\ pr'[p].pc = "idle"

C9_SignInTokenClaims == [][C9_Step]_vars

\* a sign-in answered 200 with the version it had read, 0, after the row's
\* password was changed in between
C9_Witness ==
    /\ reply.op = "signin" /\ reply.resp.status = 200
    /\ reply.resp.body.token.token_version = 0
    /\ \E i \in 1..Len(users) :
          /\ ToString(users[i].id) = reply.resp.body.token.sub
          /\ users[i].token_version = 1

\* C10 as amended: register with a login and a password, both non-empty,
\* answers 400 "User with this login already exists" and leaves the table as
\* it is if the login is in the table, and otherwise goes on to insert one row
\* and answers 201 with a message and no token, unless the store fails (500,
\* no row); with a field missing it answers 400 "Login and password are
\* required" and leaves the table as it is.
C10_Immediate(filled) ==
    (/\ reply = NoRequest /\ nreq' = nreq + 1
     /\ reply'.op = "register" /\ reply'.login # "" /\ NoStorageFailure(reply')
     /\ filled => reply'.g_filled) =>
        /\ RowsByLogin(reply'.login) # {}
        /\ reply'.resp = Json(400, "error", "User with this login already exists")
        /\ users' = users

C10_Insert ==
    /\ \A p \in Procs : (pr[p].pc = "idle" /\ pr'[p].pc = "insert") =>
          /\ RowsByLogin(pr'[p].login) = {}
          /\ users' = users
    /\ \A p \in Procs : (pr[p].pc = "insert" /\ pr'[p].pc = "idle") =>
          /\ reply'.op = "register"
          /\ \/ reply'.resp.status = 500 /\ users' = users
             \/ /\ reply'.resp.status = 201
                /\ reply'.resp.body.key = "message" /\ reply'.resp.body.token = NoToken
                /\ Len(users') = Len(users) + 1
                /\ SubSeq(users', 1, Len(users)) = users
                /\ users'[Len(users')].login = pr[p].login
                /\ checkpw(pr[p].password, users'[Len(users')].password_hash)
                /\ users'[Len(users')].token_version = 0

\* a register request with a field missing is answered 400 for that, and a
\* request answered 500 has created no row
C10_Rejected ==
    (reply' # reply /\ reply'.op = "register") =>
        /\ ~reply'.g_filled =>
              /\ reply'.resp = Json(400, "error", "Login and password are required")
              /\ users' = users
        /\ reply'.resp.status = 500 => users' = users

C10_RegisterOutcome == [][C10_Immediate(TRUE) /\ C10_Insert /\ C10_Rejected]_vars

\* C10 as stated: the same of every register request that names a login
C10_Original == [][C10_Immediate(FALSE) /\ C10_Insert]_vars

\* a second register of a login is answered 400 and the table holds the login once
C10_Witness ==
    /\ reply.op = "register" /\ reply.g_filled
    /\ reply.resp = Json(400, "error", "User with this login already exists")
    /\ Cardinality(RowsByLogin(reply.login)) = 1

\* C11: the token's exp is the time of the call plus expires_delta whenever one
\* is given, zero and negative ones included, and plus 60 minutes only when
\* none is given; so jwt.decode raises ExpiredSignatureError for a token made
\* with expires_delta <= 0, whenever it is called.
C11_ExpIsNowPlusTtl ==
    (mint.pc \in {"issued", "decoded"}) =>
        /\ mint.token.exp = mint.at + (IF mint.expires_delta.given
                                       THEN mint.expires_delta.minutes
                                       ELSE ACCESS_TOKEN_EXPIRE_MINUTES)
        /\ (/\ mint.pc = "decoded"
            /\ mint.expires_delta.given /\ mint.expires_delta.minutes <= 0)
              => mint.outcome = "ExpiredSignatureError"

\* C12: when jwt.decode accepts the token made from (data, token_version,
\* expires_delta), the payload it returns has every key of data with the value
\* data gave it, and token_version as passed.
C12_RoundTrip ==
    (mint.pc = "decoded" /\ mint.outcome = "ok") =>
        /\ \A k \in DOMAIN mint.data : mint.payload[k] = mint.data[k]
        /\ mint.payload.token_version = mint.token_version

\* C13: a sign-in, and an update_password whose token passed every check, that
\* read a row with a malformed password_hash is answered 401 with the payload
\* of a wrong password, and the table is left as it is.
C13_Step ==
    (/\ reply' # reply /\ reply'.user # NoUser
     /\ ~WellFormedHash(reply'.user.password_hash)) =>
        /\ reply'.op = "signin" =>
              reply'.resp = Json(401, "error", "Invalid login or password")
        /\ (reply'.op = "update"
                /\ reply'.user.token_version = reply'.header.token.token_version) =>
              reply'.resp = Json(401, "error", "Old password is incorrect")
        /\ users' = users

C13_MalformedHashIs401 == [][C13_Step]_vars

\* C14: a 500 answer of register or update_password is built by the handler
\* (no exception leaves the handler) and its payload does not carry the text of
\* the storage error, so it is the same whatever the cause was.
C14_Generic500 ==
    (reply.op \in {"register", "update"} /\ reply.resp.status = 500) =>
        /\ reply.resp.body.key = "error"
        /\ reply.resp.body.text \notin StorageErrors

\* C15: update_password answers by the first failing check in the order token,
\* user, version, old password, new password: 401 whenever the token is
\* invalid, expired or stale or the old password is wrong, also with
\* new_password missing; 400 only when the token and the old password passed.
\* (Said of requests that carry an old_password.)
C15_CheckOrder ==
    (reply.op = "update" /\ reply.old_password # "" /\ NoStorageFailure(reply)) =>
        LET token_ok == reply.g_sig /\ reply.g_live /\ reply.g_cur
            old_ok == /\ token_ok
                      /\ checkpw(reply.old_password, UpdateRow(reply.header).password_hash)
        IN  /\ ~old_ok => reply.resp.status = 401
            /\ reply.resp.status = 400 => (old_ok /\ reply.new_password = "")

\* C16: of the update_password requests that present tokens of one user with
\* one embedded version v, at most one is answered 200: versions only grow by
\* one per 200 answer (C3), so a 200 answer to a token of version v is the
\* (v+1)-th of its row and there is no second one.
C16_Step ==
    (reply' # reply /\ reply'.op = "update" /\ reply'.resp.status = 200) =>
        \A i \in 1..Len(users) :
            ToString(users[i].id) = reply'.header.token.sub =>
                /\ users[i].token_version = reply'.header.token.token_version
                /\ audit'[i].n = reply'.header.token.token_version + 1

C16_OneChangePerToken == [][C16_Step]_vars

\* a correctly signed token that update_password rejects: it has expired, or
\* the row of its sub holds another token_version than the token
Expired(t) == t.exp <= now
Superseded(t) ==
    \E i \in 1..Len(users) :
        ToString(users[i].id) = t.sub /\ users[i].token_version # t.token_version

\* C17: an issued token that is expired or superseded stays so in every step;
\* update_password answers "Token has expired" or "Token version mismatch"
\* only for such a token, and a request received while its token is expired
\* or superseded is not let past the token checks, whatever else it carries.
C17_Step ==
    /\ \A t \in issued :
          /\ Expired(t) => Expired(t)'
          /\ Superseded(t) => Superseded(t)'
    /\ (/\ reply' # reply /\ reply'.op = "update"
        /\ reply'.resp.status = 401
        /\ reply'.resp.body.text \in {"Token has expired", "Token version mismatch"}) =>
          /\ reply'.header.token \in issued
          /\ Expired(reply'.header.token) \/ Superseded(reply'.header.token)
    /\ (/\ reply = NoRequest /\ nreq' = nreq + 1
        /\ reply'.op = "update" /\ reply'.header.token \in issued
        /\ Expired(reply'.header.token) \/ Superseded(reply'.header.token)) =>
          /\ ~TokenAccepted(reply')
          /\ reply'.resp.status \in {400, 401, 500}
          /\ users' = users
    /\ \A p \in Procs : (pr[p].pc = "idle" /\ pr'[p].pc = "write") =>
          /\ ~Expired(pr'[p].header.token)
          /\ ~Superseded(pr'[p].header.token)

C17_RejectionPermanent == [][C17_Step]_vars

\* a token of version 0 is refused as stale when its row has since had two
\* password changes
C17_Witness ==
    /\ reply.op = "update" /\ reply.g_stale
    /\ reply.resp = Json(401, "error", "Token version mismatch")
    /\ reply.header.token.token_version = 0
    /\ \E i \in 1..Len(users) :
          ToString(users[i].id) = reply.header.token.sub /\ users[i].token_version = 2

\* the request ended in success: register answered 201, update_password 200
Succeeded(r) ==
    \/ r.op = "register" /\ r.resp.status = 201
    \/ r.op = "update" /\ r.resp.status = 200

\* C18: a step that answers a register with 400 or 500, any sign-in, or an
\* update_password with 400, 401 or 500 leaves the users table as it is, and so
\* does every step of a handler before its answer: the table changes only in
\* a step that answers register with 201 or update_password with 200.
C18_Step ==
    /\ (/\ reply' # reply
        /\ \/ reply'.op = "signin"
           \/ reply'.op = "register" /\ reply'.resp.status \in {400, 500}
           \/ reply'.op = "update" /\ reply'.resp.status \in {400, 401, 500})
          => users' = users
    /\ users' # users => (reply' # reply /\ Succeeded(reply'))
    /\ (reply' # reply /\ reply'.op # "none") =>
          \/ Succeeded(reply')
          \/ reply'.op = "signin" /\ reply'.resp.status \in {200, 400, 401, 500}
          \/ reply'.op = "register" /\ reply'.resp.status \in {400, 500}
          \/ reply'.op = "update" /\ reply'.resp.status \in {400, 401, 500}

C18_FailureLeavesStore == [][C18_Step]_vars

\* an update_password whose UPDATE or commit failed: the row it had read is
\* in the table as it was
C18_Witness ==
    /\ reply.op = "update" /\ reply.resp.status = 500 /\ reply.user # NoUser
    /\ \E i \in 1..Len(users) : users[i] = reply.user /\ audit[i].n = 0

\* C19: a step deletes no row and changes no row's id or login; ids are
\* unique; and a step that answers update_password with 200 changes
\* password_hash and token_version of the row of the token's sub and no other
\* row.
C19_Step ==
    /\ Len(users') >= Len(users)
    /\ \A i \in 1..Len(users) :
          /\ users'[i].id = users[i].id
          /\ users'[i].login = users[i].login
    /\ \A i, j \in 1..Len(users') : users'[i].id = users'[j].id => i = j
    /\ (reply' # reply /\ reply'.op = "update" /\ reply'.resp.status = 200) =>
          /\ Len(users') = Len(users)
          /\ \A i \in 1..Len(users) :
                IF ToString(users[i].id) = reply'.header.token.sub
                THEN /\ users'[i].password_hash # users[i].password_hash
                     /\ users'[i].token_version # users[i].token_version
                ELSE users'[i] = users[i]

C19_RecordsPermanent == [][C19_Step]_vars

\* a password change of one of two rows: the other row is as it was created
C19_Witness ==
    /\ reply.op = "update" /\ reply.resp.status = 200
    /\ Len(users) = 2
    /\ \E i, j \in 1..Len(users) :
          /\ ToString(users[i].id) = reply.header.token.sub
          /\ users[i].token_version = 1
          /\ j # i /\ users[j].token_version = 0 /\ audit[j].n = 0
          /\ users[j].login # users[i].login

====
